---- MODULE Spec2Model ----
(***************************************************************************)
(* Formula evaluator of the cut-list PWA (public/formula.js, public/app.js) *)
(* as a state machine.                                                      *)
(*                                                                          *)
(* Text is modelled as a sequence of one-character strings, so that the     *)
(* tokenizer, the reference codec and the coercions work on characters as  *)
(* the JavaScript does.  JavaScript values are tagged records:              *)
(*   Null, Num(n), Str(s), Bool(b), Arr(<<v1, ...>>), NonInt(k).            *)
(* Numbers are the integers; NonInt stands for the non-integer results     *)
(* (NaN, Infinity, a fraction), which the documents explored here never    *)
(* produce (DomainOK).                                                      *)
(***************************************************************************)
EXTENDS Integers, Sequences, FiniteSets, TLC

VARIABLES
    sheet,      \* the active sheet: the name of the sheetModel in use
    stored,     \* the caller's override map (localStorage item overrides:<sheet>)
    session,    \* the SheetEvaluator a caller of the class holds, if any
    last,       \* the last top-level evalCell call on it and its outcome
    grid,       \* what renderGrid last put on screen
    codecIn,    \* input of the reference-codec functions
    codecOut,   \* their output
    tree,       \* an expression tree written out as formula text
    parsed      \* what parse() made of that text

vars == <<sheet, stored, session, last, grid, codecIn, codecOut, tree, parsed>>

evalVars == <<sheet, stored, session, last, grid>>
codecVars == <<codecIn, codecOut>>
parseVars == <<tree, parsed>>

----------------------------------------------------------------------------
(* Characters                                                              *)

\* The ASCII characters 32..122 in code order: Ascii[i] has char code 31 + i
\* (c96 stands for the grave accent, which no text of the model uses).
Ascii ==
    <<" ", "!", "\"", "#", "$", "%", "&", "'", "(", ")", "*", "+", ",", "-", ".", "/",
      "0", "1", "2", "3", "4", "5", "6", "7", "8", "9", ":", ";", "<", "=", ">", "?",
      "@", "A", "B", "C", "D", "E", "F", "G", "H", "I", "J", "K", "L", "M", "N", "O",
      "P", "Q", "R", "S", "T", "U", "V", "W", "X", "Y", "Z", "[", "\\", "]", "^", "_",
      "c96", "a", "b", "c", "d", "e", "f", "g", "h", "i", "j", "k", "l", "m", "n", "o",
      "p", "q", "r", "s", "t", "u", "v", "w", "x", "y", "z">>

\* The same table read the other way, built once: character :> char code.
RECURSIVE CodeTable(_)
CodeTable(i) == IF i = 0 THEN <<>> ELSE (Ascii[i] :> (31 + i)) @@ CodeTable(i - 1)

CharCodes == CodeTable(Len(Ascii))

charCodeAt(ch) == CharCodes[ch]

fromCharCode(c) == Ascii[c - 31]

DigitChars == {Ascii[i] : i \in 17..26}

UpperLetters == {Ascii[i] : i \in 34..59}

LowerLetters == {Ascii[i] : i \in 66..91}

\* /\d/
IsDigit(ch) == ch \in DigitChars

\* /[A-Z]/
IsUpperLetter(ch) == ch \in UpperLetters

\* /[a-z]/
IsLowerLetter(ch) == ch \in LowerLetters

IsLetter(ch) == IsUpperLetter(ch) \/ IsLowerLetter(ch)

IsSpace(ch) == ch = " "

toUpperCaseChar(ch) == IF IsLowerLetter(ch) THEN fromCharCode(charCodeAt(ch) - 32) ELSE ch

toUpperCase(s) == [i \in 1..Len(s) |-> toUpperCaseChar(s[i])]

RECURSIVE trimStart(_)
trimStart(s) == IF s # <<>> /\ IsSpace(Head(s)) THEN trimStart(Tail(s)) ELSE s

RECURSIVE trimEnd(_)
trimEnd(s) ==
    IF s # <<>> /\ IsSpace(s[Len(s)]) THEN trimEnd(SubSeq(s, 1, Len(s) - 1)) ELSE s

trim(s) == trimEnd(trimStart(s))

\* Decimal digits of a natural number, as String(n) writes them.
RECURSIVE NatToStr(_)
NatToStr(n) ==
    IF n < 10 THEN <<fromCharCode(48 + n)>>
    ELSE NatToStr(n \div 10) \o <<fromCharCode(48 + (n % 10))>>

IntToStr(n) == IF n < 0 THEN <<"-">> \o NatToStr(-n) ELSE NatToStr(n)

\* Value of a run of digits, as Number reads it.
RECURSIVE DigitsToNat(_)
DigitsToNat(s) ==
    IF s = <<>> THEN 0
    ELSE 10 * DigitsToNat(SubSeq(s, 1, Len(s) - 1)) + (charCodeAt(s[Len(s)]) - 48)

AllDigits(s) == \A i \in 1..Len(s) : IsDigit(s[i])

----------------------------------------------------------------------------
(* Reference codec                                                         *)

RECURSIVE colToNumFrom(_, _)
colToNumFrom(col, n) ==
    IF col = <<>> THEN n
    ELSE colToNumFrom(Tail(col), n * 26 + (charCodeAt(Head(col)) - 64))

colToNum(col) == colToNumFrom(col, 0)

\* numToCol with the digits 0..25 of ordinary base 26
RECURSIVE numToColZeroDigit(_, _)
numToColZeroDigit(n, s) ==
    IF n > 0
    THEN numToColZeroDigit(n \div 26, <<fromCharCode(65 + (n % 26))>> \o s)
    ELSE s

RECURSIVE numToColFrom(_, _)
numToColFrom(n, s) ==
    IF n > 0
    THEN numToColFrom((n - 1) \div 26, <<fromCharCode(65 + ((n - 1) % 26))>> \o s)
    ELSE s

numToCol(n) == numToColFrom(n, <<>>)

normalizeRef(ref) == toUpperCase(SelectSeq(ref, LAMBDA ch : ch # "$"))

\* /^([A-Z]+)(\d+)$/ : the length of the leading run of capital letters.
RECURSIVE LetterRun(_)
LetterRun(s) == IF s # <<>> /\ IsUpperLetter(Head(s)) THEN 1 + LetterRun(Tail(s)) ELSE 0

\* The match with a digit group that may be empty, /^([A-Z]+)(\d*)$/
splitRefGroupsNoRow(col, digits) ==
    IF col # <<>> /\ AllDigits(digits)
    THEN [ok |-> TRUE, col |-> col, row |-> DigitsToNat(digits)]
    ELSE [ok |-> FALSE]

\* The two groups of the match, or the failure when there is none
splitRefGroups(col, digits) ==
    IF col # <<>> /\ digits # <<>> /\ AllDigits(digits)
    THEN [ok |-> TRUE, col |-> col, row |-> DigitsToNat(digits)]
    ELSE [ok |-> FALSE]

splitRefAt(ref, k) == splitRefGroups(SubSeq(ref, 1, k), SubSeq(ref, k + 1, Len(ref)))

\* splitRef: [ok |-> TRUE, col, row], or [ok |-> FALSE] when it throws Bad cell ref.
splitRef(ref) == splitRefAt(ref, LetterRun(ref))

\* String.prototype.split(":")
RECURSIVE splitColon(_, _)
splitColon(s, cur) ==
    IF s = <<>> THEN <<cur>>
    ELSE IF Head(s) = ":" THEN <<cur>> \o splitColon(Tail(s), <<>>)
    ELSE splitColon(Tail(s), cur \o <<Head(s)>>)

Min(a, b) == IF a <= b THEN a ELSE b

Max(a, b) == IF a >= b THEN a ELSE b

\* The inner loop of expandRange: for (c = colStart; c <= colEnd; c++) out.push(...)
RECURSIVE expandCols(_, _, _, _)
expandCols(c, colEnd, r, out) ==
    IF c <= colEnd
    THEN expandCols(c + 1, colEnd, r, Append(out, numToCol(c) \o IntToStr(r)))
    ELSE out

\* The outer loop of expandRange: for (r = rowStart; r <= rowEnd; r++) ...
RECURSIVE expandRows(_, _, _, _, _)
expandRows(r, rowEnd, colStart, colEnd, out) ==
    IF r <= rowEnd
    THEN expandRows(r + 1, rowEnd, colStart, colEnd, expandCols(colStart, colEnd, r, out))
    ELSE out

\* expandRange looping from the first corner to the second as they are written
expandBoxAsWritten(ca, cb, ra, rb) == expandRows(ra, rb, ca, cb, <<>>)

\* The loops of expandRange over the box with corner columns ca, cb and rows ra, rb
expandBox(ca, cb, ra, rb) == expandRows(Min(ra, rb), Max(ra, rb), Min(ca, cb), Max(ca, cb), <<>>)

expandCorners(ra, rb) ==
    IF ra.ok /\ rb.ok
    THEN [ok |-> TRUE, out |-> expandBox(colToNum(ra.col), colToNum(rb.col), ra.row, rb.row)]
    ELSE [ok |-> FALSE]

\* const [a, b] = parts.map(normalizeRef): a missing b is undefined
expandParts(parts) ==
    IF Len(parts) < 2 THEN [ok |-> FALSE]
    ELSE expandCorners(splitRef(normalizeRef(parts[1])), splitRef(normalizeRef(parts[2])))

\* expandRange: [ok |-> TRUE, out |-> <<ref, ...>>], or [ok |-> FALSE] when it throws
\* (Bad cell ref from splitRef, or normalizeRef of a missing second corner).
expandRange(rangeRef) == expandParts(splitColon(rangeRef, <<>>))

----------------------------------------------------------------------------
(* JavaScript values and the coercion library                               *)

Null == [t |-> "null", v |-> 0]

Num(n) == [t |-> "num", v |-> n]

Str(s) == [t |-> "str", v |-> s]

Bool(b) == [t |-> "bool", v |-> b]

Arr(a) == [t |-> "arr", v |-> a]

\* A number that is no integer: k is NaN, Infinity, -Infinity or frac.
NonInt(k) == [t |-> "nonint", v |-> k]

IsNumber(v) == v.t \in {"num", "nonint"}

\* digits.digits with at least one digit
PointNumber(sign, ip, fp) ==
    IF ~AllDigits(ip) \/ ~AllDigits(fp) \/ (ip = <<>> /\ fp = <<>>) THEN NonInt("NaN")
    ELSE IF DigitsToNat(fp) = 0 THEN Num(sign * DigitsToNat(ip))
    ELSE NonInt("frac")

PointAt(sign, body, d) == PointNumber(sign, SubSeq(body, 1, d - 1), SubSeq(body, d + 1, Len(body)))

\* The unsigned decimal literal body, dots the positions of its decimal points
DecimalNumber(sign, body, dots) ==
    IF body = <<>> \/ Cardinality(dots) > 1 THEN NonInt("NaN")
    ELSE IF dots = {}
        THEN IF AllDigits(body) THEN Num(sign * DigitsToNat(body)) ELSE NonInt("NaN")
    ELSE PointAt(sign, body, CHOOSE i \in dots : TRUE)

SignedNumber(sign, body) == DecimalNumber(sign, body, {i \in 1..Len(body) : body[i] = "."})

\* The literal t with white space already stripped
TrimmedNumber(t) ==
    IF t = <<>> THEN Num(0)
    ELSE IF Head(t) = "-" THEN SignedNumber(-1, Tail(t))
    ELSE IF Head(t) = "+" THEN SignedNumber(1, Tail(t))
    ELSE SignedNumber(1, t)

\* Number(s) of a string: StringNumericLiteral restricted to the decimal forms
\* [+-]digits[.digits]; the exponent, hex, octal, binary and Infinity literals
\* are in no text of the model.
StrToNumber(s) == TrimmedNumber(trim(s))

isNaN(n) == n.t = "nonint" /\ n.v = "NaN"

isFinite(n) == n.t = "num" \/ (n.t = "nonint" /\ n.v = "frac")

isNumberLike(v) ==
    IF v.t = "null" THEN FALSE
    ELSE IF IsNumber(v) THEN isFinite(v)
    ELSE IF v.t = "str" /\ trim(v.v) # <<>> THEN ~isNaN(StrToNumber(v.v))
    ELSE FALSE

\* Number(v), applied by evalCell to number-like values only.
ToNumeric(v) == IF v.t = "str" THEN StrToNumber(v.v) ELSE v

\* Number.isNaN(n) ? 0 : n
nanToZero(n) == IF isNaN(n) THEN Num(0) ELSE n

\* toNumber of a string, s the string trimmed
trimmedToNumber(s) == IF s = <<>> THEN Num(0) ELSE nanToZero(StrToNumber(s))

toNumber(v) ==
    IF v.t = "null" \/ (v.t = "str" /\ v.v = <<>>) THEN Num(0)
    ELSE IF IsNumber(v) THEN v
    ELSE IF v.t = "str" THEN trimmedToNumber(trim(v.v))
    ELSE Num(0)

\* String(v); an array is joined with commas, null elements as empty text.
RECURSIVE String(_)
RECURSIVE joinComma(_, _)
String(v) ==
    CASE v.t = "null" -> <<"n", "u", "l", "l">>
      [] v.t = "num" -> IntToStr(v.v)
      [] v.t = "nonint" ->
            IF v.v = "NaN" THEN <<"N", "a", "N">>
            ELSE IF v.v = "Infinity" THEN <<"I", "n", "f", "i", "n", "i", "t", "y">>
            ELSE IF v.v = "-Infinity" THEN <<"-", "I", "n", "f", "i", "n", "i", "t", "y">>
            ELSE <<"?">>
      [] v.t = "str" -> v.v
      [] v.t = "bool" -> IF v.v THEN <<"t", "r", "u", "e">> ELSE <<"f", "a", "l", "s", "e">>
      [] v.t = "arr" -> joinComma(v.v, 1)

joinComma(a, i) ==
    IF i > Len(a) THEN <<>>
    ELSE (IF i > 1 THEN <<",">> ELSE <<>>)
            \o (IF a[i].t = "null" THEN <<>> ELSE String(a[i]))
            \o joinComma(a, i + 1)

toText(v) == IF v.t = "null" THEN <<>> ELSE String(v)

truthyExcel(v) ==
    IF v.t = "null" THEN FALSE
    ELSE IF v.t = "bool" THEN v.v
    ELSE IF v.t = "num" THEN v.v # 0
    ELSE IF v.t = "nonint" THEN TRUE
    ELSE IF v.t = "str" THEN v.v # <<>>
    ELSE TRUE

\* replace(/\s+/g, " ")
RECURSIVE collapseSpaces(_)
collapseSpaces(s) ==
    IF s = <<>> THEN <<>>
    ELSE IF IsSpace(Head(s))
        THEN <<" ">> \o collapseSpaces(trimStart(s))
    ELSE <<Head(s)>> \o collapseSpaces(Tail(s))

trimExcel(v) == collapseSpaces(trim(toText(v)))

\* Arithmetic of two numbers; outside the integers only x / y is followed.
NumAdd(a, b) == IF a.t = "num" /\ b.t = "num" THEN Num(a.v + b.v) ELSE NonInt("NaN")

NumSub(a, b) == IF a.t = "num" /\ b.t = "num" THEN Num(a.v - b.v) ELSE NonInt("NaN")

NumMul(a, b) == IF a.t = "num" /\ b.t = "num" THEN Num(a.v * b.v) ELSE NonInt("NaN")

NumNeg(a) == IF a.t = "num" THEN Num(-a.v) ELSE NonInt("NaN")

Abs(n) == IF n < 0 THEN -n ELSE n

NumDiv(a, b) ==
    IF a.t # "num" \/ b.t # "num" THEN NonInt("NaN")
    ELSE IF b.v = 0
        THEN IF a.v = 0 THEN NonInt("NaN")
             ELSE IF a.v > 0 THEN NonInt("Infinity") ELSE NonInt("-Infinity")
    ELSE IF Abs(a.v) % Abs(b.v) = 0
        THEN Num((IF (a.v < 0) = (b.v < 0) THEN 1 ELSE -1) * (Abs(a.v) \div Abs(b.v)))
    ELSE NonInt("frac")

NumLess(a, b) == a.t = "num" /\ b.t = "num" /\ a.v < b.v

NumLeq(a, b) == a.t = "num" /\ b.t = "num" /\ a.v <= b.v

----------------------------------------------------------------------------
(* Tokenizer                                                                *)

Tok(type, value) == [type |-> type, value |-> value]

At(s, i) == IF i >= 1 /\ i <= Len(s) THEN s[i] ELSE ""

\* The body of a string literal from position j on: [j |-> index of the closing
\* quote (or past the end), out |-> the decoded text].
RECURSIVE scanString(_, _, _)
scanString(s, j, out) ==
    IF j > Len(s) THEN [j |-> j, out |-> out]
    ELSE IF s[j] = "\"" /\ At(s, j + 1) = "\"" THEN scanString(s, j + 2, out \o <<"\"">>)
    ELSE IF s[j] = "\"" THEN [j |-> j, out |-> out]
    ELSE scanString(s, j + 1, out \o <<s[j]>>)

IsNumberChar(ch) == IsDigit(ch) \/ ch = "."

IsIdentStart(ch) == IsLetter(ch) \/ ch = "_" \/ ch = "$"

IsIdentChar(ch) == IsLetter(ch) \/ IsDigit(ch) \/ ch = "_" \/ ch = "$"

RECURSIVE scanNumber(_, _)
scanNumber(s, j) == IF j <= Len(s) /\ IsNumberChar(s[j]) THEN scanNumber(s, j + 1) ELSE j

RECURSIVE scanIdent(_, _)
scanIdent(s, j) == IF j <= Len(s) /\ IsIdentChar(s[j]) THEN scanIdent(s, j + 1) ELSE j

TwoCharOps == {<<"<", ">">>, <<"<", "=">>, <<">", "=">>}

OneCharOps == {"+", "-", "*", "/", "&", "(", ")", ",", ":", "<", ">", "="}

\* The while loop of tokenize: [ok |-> TRUE, tokens], or [ok |-> FALSE] for
\* the Unexpected char error.
RECURSIVE tokenizeFrom(_, _, _)

\* A string literal was read: r is where it ends and its text
stringToken(s, tokens, r) == tokenizeFrom(s, r.j + 1, Append(tokens, Tok("string", r.out)))

\* A number or an identifier was read from i up to j
runToken(s, type, i, j, tokens) == tokenizeFrom(s, j, Append(tokens, Tok(type, SubSeq(s, i, j - 1))))

tokenizeFrom(s, i, tokens) ==
    IF i > Len(s) THEN [ok |-> TRUE, tokens |-> tokens]
    ELSE IF IsSpace(s[i]) THEN tokenizeFrom(s, i + 1, tokens)
    ELSE IF s[i] = "\"" THEN stringToken(s, tokens, scanString(s, i + 1, <<>>))
    ELSE IF SubSeq(s, i, Min(i + 1, Len(s))) \in TwoCharOps
        THEN tokenizeFrom(s, i + 2, Append(tokens, Tok("op", SubSeq(s, i, i + 1))))
    ELSE IF s[i] \in OneCharOps THEN tokenizeFrom(s, i + 1, Append(tokens, Tok("op", <<s[i]>>)))
    ELSE IF IsDigit(s[i]) \/ (s[i] = "." /\ IsDigit(At(s, i + 1)))
        THEN runToken(s, "number", i, scanNumber(s, i + 1), tokens)
    ELSE IF IsIdentStart(s[i]) THEN runToken(s, "ident", i, scanIdent(s, i + 1), tokens)
    ELSE [ok |-> FALSE]

tokenize(formula) == tokenizeFrom(trim(formula), 1, <<>>)

----------------------------------------------------------------------------
(* Parser: every function returns [ok |-> TRUE, node, pos], pos the index   *)
(* of the next token, or [ok |-> FALSE] when it throws.                     *)

Fail == [ok |-> FALSE]

Ok(node, pos) == [ok |-> TRUE, node |-> node, pos |-> pos]

\* peek() is an op token with a value in ops
PeekOp(toks, pos, ops) ==
    pos <= Len(toks) /\ toks[pos].type = "op" /\ toks[pos].value \in ops

CompareOps == {<<"=">>, <<"<", ">">>, <<"<">>, <<">">>, <<"<", "=">>, <<">", "=">>}

ConcatOps == {<<"&">>}

AddOps == {<<"+">>, <<"-">>}

\* The multiplicative rung with the minus sign on it
MulOpsWithMinus == {<<"*">>, <<"/">>, <<"-">>}

MulOps == {<<"*">>, <<"/">>}

UnaryOps == {<<"+">>, <<"-">>}

BinNode(op, left, right) == [type |-> "bin", op |-> op, left |-> left, right |-> right]

UnaryNode(op, expr) == [type |-> "unary", op |-> op, expr |-> expr]

NumNode(v) == [type |-> "num", value |-> v]

StrNode(s) == [type |-> "str", value |-> s]

CellNode(ref) == [type |-> "cell", ref |-> ref]

RangeNode(ref) == [type |-> "range", ref |-> ref]

NameNode(name) == [type |-> "name", name |-> name]

CallNode(name, args) == [type |-> "call", name |-> name, args |-> args]

\* /^\$?[A-Z]{1,3}\$?\d+$/
IsCellRef(ident) ==
    LET a == IF ident # <<>> /\ Head(ident) = "$" THEN Tail(ident) ELSE ident
        k == LetterRun(a)
        b == SubSeq(a, k + 1, Len(a))
        c == IF b # <<>> /\ Head(b) = "$" THEN Tail(b) ELSE b
    IN  k >= 1 /\ k <= 3 /\ c # <<>> /\ AllDigits(c)

\* r is the outcome of a parse function: go on with K(node, pos) unless it threw.
Bind(r, K(_, _)) == IF r.ok THEN K(r.node, r.pos) ELSE Fail

RECURSIVE parseExpr(_, _)
RECURSIVE parseCompare(_, _)
RECURSIVE compareLoop(_, _, _)
RECURSIVE parseConcat(_, _)
RECURSIVE concatLoop(_, _, _)
RECURSIVE parseAdd(_, _)
RECURSIVE addLoop(_, _, _)
RECURSIVE parseMul(_, _)
RECURSIVE mulLoop(_, _, _)
RECURSIVE parseUnary(_, _)
RECURSIVE parsePrimary(_, _)
RECURSIVE parseArgs(_, _, _)

parseExpr(toks, pos) == parseCompare(toks, pos)

parseCompare(toks, pos) ==
    Bind(parseConcat(toks, pos), LAMBDA node, p : compareLoop(toks, node, p))

\* while (peek() is a comparison operator) { op = next(); right = parseConcat(); fold }
compareLoop(toks, node, pos) ==
    IF PeekOp(toks, pos, CompareOps)
    THEN Bind(parseConcat(toks, pos + 1),
              LAMBDA right, p : compareLoop(toks, BinNode(toks[pos].value, node, right), p))
    ELSE Ok(node, pos)

parseConcat(toks, pos) ==
    Bind(parseAdd(toks, pos), LAMBDA node, p : concatLoop(toks, node, p))

concatLoop(toks, node, pos) ==
    IF PeekOp(toks, pos, ConcatOps)
    THEN Bind(parseAdd(toks, pos + 1),
              LAMBDA right, p : concatLoop(toks, BinNode(<<"&">>, node, right), p))
    ELSE Ok(node, pos)

parseAdd(toks, pos) ==
    Bind(parseMul(toks, pos), LAMBDA node, p : addLoop(toks, node, p))

addLoop(toks, node, pos) ==
    IF PeekOp(toks, pos, AddOps)
    THEN Bind(parseMul(toks, pos + 1),
              LAMBDA right, p : addLoop(toks, BinNode(toks[pos].value, node, right), p))
    ELSE Ok(node, pos)

parseMul(toks, pos) ==
    Bind(parseUnary(toks, pos), LAMBDA node, p : mulLoop(toks, node, p))

mulLoop(toks, node, pos) ==
    IF PeekOp(toks, pos, MulOps)
    THEN Bind(parseUnary(toks, pos + 1),
              LAMBDA right, p : mulLoop(toks, BinNode(toks[pos].value, node, right), p))
    ELSE Ok(node, pos)

parseUnary(toks, pos) ==
    IF PeekOp(toks, pos, UnaryOps)
    THEN Bind(parseUnary(toks, pos + 1),
              LAMBDA expr, p : Ok(UnaryNode(toks[pos].value, expr), p))
    ELSE parsePrimary(toks, pos)

\* The argument loop of a call, pos at the first token of an argument:
\* args.push(parseExpr()); if (acceptOp(")")) break; expectOp(",")
parseArgs(toks, pos, args) ==
    Bind(parseExpr(toks, pos),
         LAMBDA node, p :
            IF PeekOp(toks, p, {<<")">>}) THEN Ok(Append(args, node), p + 1)
            ELSE IF PeekOp(toks, p, {<<",">>}) THEN parseArgs(toks, p + 1, Append(args, node))
            ELSE Fail)

\* The ident case of parsePrimary: a call, a range, a cell or a bare name
parseIdent(toks, pos, raw, ident) ==
    IF PeekOp(toks, pos + 1, {<<"(">>}) THEN
        IF PeekOp(toks, pos + 2, {<<")">>})
        THEN Ok(CallNode(ident, <<>>), pos + 3)
        ELSE Bind(parseArgs(toks, pos + 2, <<>>), LAMBDA args, p : Ok(CallNode(ident, args), p))
    ELSE IF PeekOp(toks, pos + 1, {<<":">>}) THEN
        IF pos + 2 <= Len(toks) /\ toks[pos + 2].type = "ident"
        THEN Ok(RangeNode(raw \o <<":">> \o toks[pos + 2].value), pos + 3)
        ELSE Fail
    ELSE IF IsCellRef(ident) THEN Ok(CellNode(raw), pos + 1)
    ELSE Ok(NameNode(ident), pos + 1)

parsePrimary(toks, pos) ==
    IF pos > Len(toks) THEN Fail
    ELSE IF PeekOp(toks, pos, {<<"(">>}) THEN
        Bind(parseExpr(toks, pos + 1),
             LAMBDA e, p : IF PeekOp(toks, p, {<<")">>}) THEN Ok(e, p + 1) ELSE Fail)
    ELSE IF toks[pos].type = "number" THEN Ok(NumNode(StrToNumber(toks[pos].value)), pos + 1)
    ELSE IF toks[pos].type = "string" THEN Ok(StrNode(toks[pos].value), pos + 1)
    ELSE IF toks[pos].type = "ident"
        THEN parseIdent(toks, pos, toks[pos].value, toUpperCase(toks[pos].value))
    ELSE Fail

\* pos !== tokens.length after parseExpr: Could not fully parse formula
parseAll(toks, e) ==
    IF e.ok /\ e.pos = Len(toks) + 1 THEN [ok |-> TRUE, ast |-> e.node] ELSE [ok |-> FALSE]

parseTokens(tk) == IF tk.ok THEN parseAll(tk.tokens, parseExpr(tk.tokens, 1)) ELSE [ok |-> FALSE]

\* parse: [ok |-> TRUE, ast], or [ok |-> FALSE] when tokenize or the parser throws.
parse(formula) == parseTokens(tokenize(formula))

----------------------------------------------------------------------------
(* Documents (model.json sheets) the evaluator is run on                    *)

\* Raw lengths D4 and D5 (D5 stored as numeric text), their SUM in D6, D7 built on D6.
SumSheetCells ==
    (   (<<"D", "4">> :> [v |-> Num(2), f |-> Null])
    @@  (<<"D", "5">> :> [v |-> Str(<<"3">>), f |-> Null])
    @@  (<<"D", "6">> :> [v |-> Num(5), f |-> Str(<<"S", "U", "M", "(", "D", "4", ":", "D", "5", ")">>)])
    @@  (<<"D", "7">> :> [v |-> Num(10), f |-> Str(<<"D", "6", "*", "2">>)])
    @@  (<<"E", "4">> :> [v |-> Str(<<"o", "a", "k">>), f |-> Null])
    @@  (<<"E", "5">> :> [v |-> Null, f |-> Null])
    @@  (<<"E", "6">> :> [v |-> Num(0), f |-> Str(<<"S", "U", "M", "(", "D", "4", ":", "E", "5", ",", " ", "1", ")">>)])
    @@  (<<"E", "7">> :> [v |-> Str(<<"x">>), f |-> Str(<<"T", "R", "I", "M", "(", "E", "4", ")", " ", "&", " ", "D", "7">>)]) )

SumSheet ==
    [cells |-> SumSheetCells,
     inputs |-> <<[label |-> <<"W">>, cell |-> <<"$", "d", "$", "4">>, type |-> "number"]>>,
     table |-> [startRow |-> 4, endRow |-> 7, columns |-> <<<<"D">>, <<"E">>>>]]

\* IF cells: C1 with both branches, C2 without else and with a formula cell in its then-branch, C3 whose untaken branch holds a formula cell.
IfSheetCells ==
    (   (<<"A", "1">> :> [v |-> Num(1), f |-> Null])
    @@  (<<"B", "1">> :> [v |-> Str(<<"y", "e", "s">>), f |-> Null])
    @@  (<<"B", "2">> :> [v |-> Num(20), f |-> Str(<<"A", "1", "*", "1", "0", "+", "B", "3">>)])
    @@  (<<"B", "3">> :> [v |-> Num(7), f |-> Null])
    @@  (<<"C", "1">> :> [v |-> Str(<<"y", "e", "s">>), f |-> Str(<<"I", "F", "(", "A", "1", ">", "0", ",", "B", "1", ",", "B", "2", ")">>)])
    @@  (<<"C", "2">> :> [v |-> Num(17), f |-> Str(<<"I", "F", "(", "A", "1", ">", "0", ",", "B", "2", ")">>)])
    @@  (<<"C", "3">> :> [v |-> Num(0), f |-> Str(<<"i", "f", "(", "A", "1", ",", " ", "A", "1", "+", "1", ",", " ", "S", "U", "M", "(", "B", "2", ":", "B", "3", ")", ")">>)])
    @@  (<<"A", "2">> :> [v |-> Null, f |-> Null])
    @@  (<<"A", "3">> :> [v |-> Num(3), f |-> Str(<<"I", "F", "(", "A", "2", ",", "B", "2", ")">>)]) )

IfSheet ==
    [cells |-> IfSheetCells,
     inputs |-> <<[label |-> <<"N">>, cell |-> <<"A", "1">>, type |-> "number"],
                 [label |-> <<"T">>, cell |-> <<"B", "1">>, type |-> "text"]>>,
     table |-> [startRow |-> 1, endRow |-> 3, columns |-> <<<<"A">>, <<"B">>, <<"C">>>>]]

\* Reference cycles: A1 on itself, B1 and C1 on each other, A2 on a range that holds A2, C2 through B1.
CycleSheetCells ==
    (   (<<"A", "1">> :> [v |-> Null, f |-> Str(<<"A", "1">>)])
    @@  (<<"B", "1">> :> [v |-> Num(0), f |-> Str(<<"C", "1", "+", "1">>)])
    @@  (<<"C", "1">> :> [v |-> Num(0), f |-> Str(<<"B", "1", "+", "1">>)])
    @@  (<<"A", "2">> :> [v |-> Num(0), f |-> Str(<<"S", "U", "M", "(", "A", "2", ":", "B", "2", ")">>)])
    @@  (<<"B", "2">> :> [v |-> Num(4), f |-> Null])
    @@  (<<"C", "2">> :> [v |-> Num(0), f |-> Str(<<"$", "b", "$", "1", "+", "c", "1">>)]) )

CycleSheet ==
    [cells |-> CycleSheetCells,
     inputs |-> <<[label |-> <<"X">>, cell |-> <<"B", "2">>, type |-> "number"]>>,
     table |-> [startRow |-> 1, endRow |-> 2, columns |-> <<<<"A">>, <<"B">>, <<"C">>>>]]

\* A1 does not parse, A2 does not tokenize; B1 and C2 reference A1, B2 and C1 do not.
BadSheetCells ==
    (   (<<"A", "1">> :> [v |-> Null, f |-> Str(<<"1", "+">>)])
    @@  (<<"B", "1">> :> [v |-> Num(0), f |-> Str(<<"A", "1", "+", "1">>)])
    @@  (<<"C", "1">> :> [v |-> Num(5), f |-> Null])
    @@  (<<"A", "2">> :> [v |-> Null, f |-> Str(<<"1", " ", "#", " ", "2">>)])
    @@  (<<"B", "2">> :> [v |-> Num(10), f |-> Str(<<"C", "1", "*", "2">>)])
    @@  (<<"C", "2">> :> [v |-> Num(0), f |-> Str(<<"S", "U", "M", "(", "A", "1", ":", "C", "1", ")">>)]) )

BadSheet ==
    [cells |-> BadSheetCells,
     inputs |-> <<[label |-> <<"V">>, cell |-> <<"C", "1">>, type |-> "number"]>>,
     table |-> [startRow |-> 1, endRow |-> 2, columns |-> <<<<"A">>, <<"B">>, <<"C">>>>]]

\* Formulas that parse: A1 calls a function that is not built in, C1 is a bare
\* name, A2, B2 and C2 call SUM, TRIM and IF with fewer arguments than they
\* read, A3 is a range whose second corner has no row.
ArgsSheetCells ==
    (   (<<"A", "1">> :> [v |-> Null, f |-> Str(<<"F", "O", "O", "(", "1", ",", " ", "B", "1", ")">>)])
    @@  (<<"B", "1">> :> [v |-> Num(2), f |-> Null])
    @@  (<<"C", "1">> :> [v |-> Null, f |-> Str(<<"t", "o", "t", "a", "l">>)])
    @@  (<<"A", "2">> :> [v |-> Num(0), f |-> Str(<<"S", "U", "M", "(", ")">>)])
    @@  (<<"B", "2">> :> [v |-> Null, f |-> Str(<<"T", "R", "I", "M", "(", ")">>)])
    @@  (<<"C", "2">> :> [v |-> Null, f |-> Str(<<"I", "F", "(", "B", "1", ")">>)])
    @@  (<<"A", "3">> :> [v |-> Null, f |-> Str(<<"B", "1", ":", "C">>)]) )

ArgsSheet ==
    [cells |-> ArgsSheetCells,
     inputs |-> <<[label |-> <<"Q">>, cell |-> <<"B", "1">>, type |-> "number"]>>,
     table |-> [startRow |-> 1, endRow |-> 3, columns |-> <<<<"A">>, <<"B">>, <<"C">>>>]]

\* !f for a formula field: absent, null or the empty string
NoFormula(f) == f.t = "null" \/ (f.t = "str" /\ f.v = <<>>)

\* A document with every cell whose formula does not tokenize or parse made blank
Unparseable(c) == ~NoFormula(c.f) /\ ~parse(c.f.v).ok

Blanked(sm) ==
    [sm EXCEPT !.cells = [k \in DOMAIN @ |-> IF Unparseable(@[k]) THEN [v |-> Null, f |-> Null]
                                              ELSE @[k]]]

\* model.sheets: the documents by sheet name. The evaluator and the page hold a
\* sheet by reference; the state holds its name.
SheetNames == {"SUM", "IF", "CYCLE", "BAD", "ARGS"}

SheetModel(name) ==
    CASE name = "SUM" -> SumSheet
      [] name = "IF" -> IfSheet
      [] name = "CYCLE" -> CycleSheet
      [] name = "BAD" -> BadSheet
      [] name = "ARGS" -> ArgsSheet
      [] name = "BADBLANK" -> Blanked(BadSheet)

----------------------------------------------------------------------------
(* SheetEvaluator                                                           *)
(*                                                                          *)
(* An evaluator is [sheetModel, overrides, cache, astCache, calls, trace]:   *)
(* calls is a history variable, the normalized refs evalCell was entered    *)
(* with; trace is a history variable, the steps of the top-level call in    *)
(* progress that touch the visitation stack or the cache, in order.         *)
(* The mutable part [cache, astCache, calls, trace] is threaded through the *)
(* recursion as st; evalCell and evalAst return                             *)
(* [thrown |-> BOOLEAN, v |-> value, st |-> the mutable part afterwards].   *)

EmptyMap == <<>>

MapSet(m, k, v) == (k :> v) @@ m

\* Object.fromEntries(entries.map(([k, v]) => [normalizeRef(k), v])):
\* a later entry replaces an earlier one with the same normalized key.
RECURSIVE fromEntries(_, _)
fromEntries(entries, m) ==
    IF entries = <<>> THEN m
    ELSE fromEntries(Tail(entries), MapSet(m, normalizeRef(Head(entries).k), Head(entries).v))

NormalizeOverrides(overrides) == fromEntries(overrides, EmptyMap)

SheetEvaluator(sheetModel, overrides) ==
    [sheetModel |-> sheetModel,
     overrides |-> NormalizeOverrides(overrides),
     cache |-> EmptyMap,
     astCache |-> EmptyMap,
     calls |-> {},
     trace |-> <<>>]

\* cells[nref] || cells[ref] || null:
\* [found |-> TRUE, c |-> the cell record], or [found |-> FALSE] for null
CellOf(cells, nref, ref) ==
    IF nref \in DOMAIN cells THEN [found |-> TRUE, c |-> cells[nref]]
    ELSE IF ref \in DOMAIN cells THEN [found |-> TRUE, c |-> cells[ref]]
    ELSE [found |-> FALSE]

LookupCell(self, ref) == CellOf(SheetModel(self.sheetModel).cells, normalizeRef(ref), ref)

\* c ? c.v : null
cellValue(c) == IF c.found THEN c.c.v ELSE Null

\* c ? c.f : null
cellFormula(c) == IF c.found THEN c.c.f ELSE Null

\* A caller's override map read directly: whether some key of obj spells nref,
\* and the value of the last such key
HasOverride(obj, nref) == \E i \in 1..Len(obj) : normalizeRef(obj[i].k) = nref

OverrideValue(obj, nref) ==
    obj[CHOOSE i \in 1..Len(obj) :
            /\ normalizeRef(obj[i].k) = nref
            /\ \A j \in (i + 1)..Len(obj) : normalizeRef(obj[j].k) # nref].v

\* getCellRaw reading the store as it is now
rawAtStore(self, nref, ref) ==
    IF HasOverride(stored, nref) THEN OverrideValue(stored, nref)
    ELSE cellValue(LookupCell(self, ref))

\* getCellRaw reading the document only
rawAtDocument(self, nref, ref) == cellValue(LookupCell(self, ref))

rawAt(self, nref, ref) ==
    IF nref \in DOMAIN self.overrides THEN self.overrides[nref]
    ELSE cellValue(LookupCell(self, ref))

getCellRaw(self, ref) == rawAt(self, normalizeRef(ref), ref)

getCellFormula(self, ref) == cellFormula(LookupCell(self, ref))

\* isNumberLike(v) ? Number(v) : (v ?? "")
RawOut(v) == IF isNumberLike(v) THEN ToNumeric(v) ELSE IF v.t = "null" THEN Str(<<>>) ELSE v

Returned(v, st) == [thrown |-> FALSE, v |-> v, st |-> st]

Thrown(st) == [thrown |-> TRUE, v |-> Null, st |-> st]

\* The switch on node.op, nl and nr the operands as numbers, tl and tr as text
binSwitch(op, nl, nr, tl, tr) ==
    CASE op = <<"&">> -> Str(tl \o tr)
      [] op = <<"+">> -> NumAdd(nl, nr)
      [] op = <<"-">> -> NumSub(nl, nr)
      [] op = <<"*">> -> NumMul(nl, nr)
      [] op = <<"/">> -> NumDiv(nl, nr)
      [] op = <<"=">> -> Bool(tl = tr)
      [] op = <<"<", ">">> -> Bool(tl # tr)
      [] op = <<"<">> -> Bool(NumLess(nl, nr))
      [] op = <<">">> -> Bool(NumLess(nr, nl))
      [] op = <<"<", "=">> -> Bool(NumLeq(nl, nr))
      [] op = <<">", "=">> -> Bool(NumLeq(nr, nl))
      [] OTHER -> Str(<<>>)

BinOp(op, l, r) == binSwitch(op, toNumber(l), toNumber(r), toText(l), toText(r))

\* for (const x of v) sum += toNumber(x)
RECURSIVE sumArray(_, _, _)
sumArray(a, i, sum) ==
    IF i > Len(a) THEN sum ELSE sumArray(a, i + 1, NumAdd(sum, toNumber(a[i])))

\* r is the outcome of an evaluation: go on with K(value, state) unless it threw.
Then(r, K(_, _)) == IF r.thrown THEN r ELSE K(r.v, r.st)

\* A step of evalCell on nref (history): op is push for stack.concat([nref]),
\* with the stack it makes, guard for the return at stack.includes(nref), with
\* the stack it saw, and set for this.cache.set(nref, out); cached tells
\* whether the cache held nref when the step was taken.
Step(op, nref, stack, st) ==
    [op |-> op, nref |-> nref, stack |-> stack, cached |-> nref \in DOMAIN st.cache]

Logged(st, step) == [st EXCEPT !.trace = Append(@, step)]

\* this.cache.set(nref, out); return out
cacheSet(nref, out, st) ==
    Returned(out, [Logged(st, Step("set", nref, <<>>, st)) EXCEPT !.cache = MapSet(@, nref, out)])

RECURSIVE evalCell(_, _, _, _)
RECURSIVE evalAst(_, _, _, _)
RECURSIVE evalRefs(_, _, _, _, _, _)
RECURSIVE evalArg(_, _, _, _, _)
RECURSIVE evalIf(_, _, _, _)
RECURSIVE evalSum(_, _, _, _, _, _)

\* const out = this.evalAst(ast, stack.concat([nref])); this.cache.set(nref, out)
evalFormulaAst(self, nref, ast, stack, st) ==
    Then(evalAst(self, ast, stack \o <<nref>>, Logged(st, Step("push", nref, stack \o <<nref>>, st))),
         LAMBDA out, s : cacheSet(nref, out, s))

\* ast = parse(f); this.astCache.set(f, ast): p is what parse(f) gave
evalParsed(self, nref, f, p, stack, st) ==
    IF p.ok
    THEN evalFormulaAst(self, nref, p.ast, stack, [st EXCEPT !.astCache = MapSet(@, f, p.ast)])
    ELSE Thrown(st)

\* evalCell from const f = this.getCellFormula(nref) on
evalCellBody(self, nref, f, stack, st) ==
    IF NoFormula(f) THEN cacheSet(nref, RawOut(getCellRaw(self, nref)), st)
    ELSE IF f.v \in DOMAIN st.astCache
        THEN evalFormulaAst(self, nref, st.astCache[f.v], stack, st)
    ELSE evalParsed(self, nref, f.v, parse(f.v), stack, st)

\* evalCell writing the blank it returns for a cell on the stack to the cache
evalCellAtGuardCaches(self, nref, stack, st) ==
    IF nref \in DOMAIN st.cache THEN Returned(st.cache[nref], st)
    ELSE IF \E i \in 1..Len(stack) : stack[i] = nref
        THEN cacheSet(nref, Str(<<>>), Logged(st, Step("guard", nref, stack, st)))
    ELSE evalCellBody(self, nref, getCellFormula(self, nref), stack, st)

\* evalCell after const nref = normalizeRef(ref)
evalCellAt(self, nref, stack, st) ==
    IF nref \in DOMAIN st.cache THEN Returned(st.cache[nref], st)
    ELSE IF \E i \in 1..Len(stack) : stack[i] = nref
        THEN Returned(Str(<<>>), Logged(st, Step("guard", nref, stack, st)))
    ELSE evalCellBody(self, nref, getCellFormula(self, nref), stack, st)

evalCellEnter(self, nref, stack, st) ==
    evalCellAt(self, nref, stack, [st EXCEPT !.calls = @ \cup {nref}])

\* evalCell using the reference as it is spelled
evalCellAsSpelled(self, ref, stack, st) == evalCellEnter(self, ref, stack, st)

evalCell(self, ref, stack, st) == evalCellEnter(self, normalizeRef(ref), stack, st)

\* refs.map((r) => this.evalCell(r, stack)), from index i on, out the values so far
evalRefs(self, refs, i, stack, st, out) ==
    IF i > Len(refs) THEN Returned(Arr(out), st)
    ELSE Then(evalCell(self, refs[i], stack, st),
              LAMBDA v, s : evalRefs(self, refs, i + 1, stack, s, Append(out, v)))

evalRange(self, refs, stack, st) ==
    IF refs.ok THEN evalRefs(self, refs.out, 1, stack, st, <<>>) ELSE Thrown(st)

\* this.evalAst(node.args[i], stack): a missing argument is undefined, and
\* reading its type throws a TypeError.
evalArg(self, args, i, stack, st) ==
    IF i <= Len(args) THEN evalAst(self, args[i], stack, st) ELSE Thrown(st)

\* node.args[2] ?? { type: "str", value: "" }
elseArg(args) == IF Len(args) >= 3 THEN args[3] ELSE StrNode(<<>>)

\* IF evaluating both branches before it chooses
evalIfBoth(self, node, stack, st) ==
    Then(evalArg(self, node.args, 1, stack, st),
         LAMBDA cond, s :
            Then(evalArg(self, node.args, 2, stack, s),
                 LAMBDA a, sa :
                    Then(evalAst(self, elseArg(node.args), stack, sa),
                         LAMBDA b, sb : Returned(IF truthyExcel(cond) THEN a ELSE b, sb))))

evalIf(self, node, stack, st) ==
    Then(evalArg(self, node.args, 1, stack, st),
         LAMBDA cond, s :
            IF truthyExcel(cond) THEN evalArg(self, node.args, 2, stack, s)
            ELSE evalAst(self, elseArg(node.args), stack, s))

\* SUM adding the numeric coercion of each argument as a whole
sumStepWhole(sum, v) == NumAdd(sum, toNumber(v))

\* sum after one evaluated argument v
sumStep(sum, v) == IF v.t = "arr" THEN sumArray(v.v, 1, sum) ELSE NumAdd(sum, toNumber(v))

\* for (const arg of node.args) ..., from index i on
evalSum(self, args, i, stack, st, sum) ==
    IF i > Len(args) THEN Returned(sum, st)
    ELSE Then(evalAst(self, args[i], stack, st),
              LAMBDA v, s : evalSum(self, args, i + 1, stack, s, sumStep(sum, v)))

unaryOp(op, v) ==
    IF op = <<"+">> THEN toNumber(v) ELSE IF op = <<"-">> THEN NumNeg(toNumber(v)) ELSE Num(0)

evalAst(self, node, stack, st) ==
    CASE node.type = "num" -> Returned(node.value, st)
      [] node.type = "str" -> Returned(Str(node.value), st)
      [] node.type = "cell" -> evalCell(self, node.ref, stack, st)
      [] node.type = "range" -> evalRange(self, expandRange(node.ref), stack, st)
      [] node.type = "name" -> Returned(Str(<<>>), st)
      [] node.type = "unary" ->
            Then(evalAst(self, node.expr, stack, st),
                 LAMBDA v, s : Returned(unaryOp(node.op, v), s))
      [] node.type = "bin" ->
            Then(evalAst(self, node.left, stack, st),
                 LAMBDA l, sl :
                    Then(evalAst(self, node.right, stack, sl),
                         LAMBDA r, sr : Returned(BinOp(node.op, l, r), sr)))
      [] node.type = "call" ->
            IF node.name = <<"I", "F">> THEN evalIf(self, node, stack, st)
            ELSE IF node.name = <<"S", "U", "M">>
                THEN evalSum(self, node.args, 1, stack, st, Num(0))
            ELSE IF node.name = <<"T", "R", "I", "M">>
                THEN Then(evalArg(self, node.args, 1, stack, st),
                          LAMBDA v, s : Returned(Str(trimExcel(v)), s))
            ELSE Returned(Str(<<>>), st)
      [] OTHER -> Returned(Str(<<>>), st)

\* The mutable part of an evaluator at the start of a top-level call, its
\* trace empty, and the evaluator with the mutable part put back.
StateOf(ev) ==
    [cache |-> ev.cache, astCache |-> ev.astCache, calls |-> ev.calls, trace |-> <<>>]

WithState(ev, st) ==
    [ev EXCEPT !.cache = st.cache, !.astCache = st.astCache, !.calls = st.calls,
               !.trace = st.trace]

----------------------------------------------------------------------------
(* The page (app.js): the override store, the input handler, renderGrid     *)

\* A plain object as its entries [k, v] in insertion order, keys distinct.
HasKey(obj, k) == \E i \in 1..Len(obj) : obj[i].k = k

\* obj[k] = v: an existing key keeps its place, a new key goes last
ObjSet(obj, k, v) ==
    IF HasKey(obj, k)
    THEN [i \in 1..Len(obj) |-> IF obj[i].k = k THEN [k |-> k, v |-> v] ELSE obj[i]]
    ELSE Append(obj, [k |-> k, v |-> v])

\* delete obj[k]
ObjDelete(obj, k) == SelectSeq(obj, LAMBDA e : e.k # k)

\* Number.isNaN(n) ? "" : n
nanToBlank(n) == IF isNaN(n) THEN Str(<<>>) ELSE n

\* The number branch of parseUserInput, t the text trimmed
parseTrimmed(t) == IF t = <<>> THEN Str(<<>>) ELSE nanToBlank(StrToNumber(t))

parseUserInput(raw, type) == IF type = "number" THEN parseTrimmed(trim(raw)) ELSE Str(raw)

\* Text shown in a grid cell; a non-integer number is in no document here.
formatValue(v) ==
    IF v.t = "null" THEN <<>>
    ELSE IF v.t = "bool" THEN IF v.v THEN <<"T", "R", "U", "E">> ELSE <<"F", "A", "L", "S", "E">>
    ELSE String(v)

\* try { v = evaluator.evalCell(ref) } catch (e) { v = "" }
caught(ev, r) == [v |-> IF r.thrown THEN Str(<<>>) ELSE r.v, ev |-> WithState(ev, r.st)]

TryEvalCell(ev, ref) == caught(ev, evalCell(ev, ref, <<>>, StateOf(ev)))

\* The column loop of one grid row: g is [ev, values, row, rowHasAny]
RECURSIVE gridCols(_, _, _, _)

\* The td of ref: c is what the try gave, text what formatValue made of it;
\* if (text !== "") rowHasAny = true
gridCell(columns, j, r, g, ref, c, text) ==
    IF text # <<>>
    THEN gridCols(columns, j + 1, r,
                  [ev |-> c.ev, values |-> MapSet(g.values, ref, c.v),
                   row |-> Append(g.row, text), rowHasAny |-> TRUE])
    ELSE gridCols(columns, j + 1, r,
                  [ev |-> c.ev, values |-> MapSet(g.values, ref, c.v),
                   row |-> Append(g.row, text), rowHasAny |-> g.rowHasAny])

gridValue(columns, j, r, g, ref, c) == gridCell(columns, j, r, g, ref, c, formatValue(c.v))

gridRef(columns, j, r, g, ref) == gridValue(columns, j, r, g, ref, TryEvalCell(g.ev, ref))

gridCols(columns, j, r, g) ==
    IF j > Len(columns) THEN g ELSE gridRef(columns, j, r, g, columns[j] \o IntToStr(r))

\* The row loop: only rows with some visible content are appended to the body.
RECURSIVE gridRows(_, _, _, _, _)

\* if (rowHasAny) tbody.append(tr), g the row as the column loop left it
gridRowDone(table, r, g, rows) ==
    IF g.rowHasAny
    THEN gridRows(table, r + 1, g.ev, g.values, Append(rows, g.row))
    ELSE gridRows(table, r + 1, g.ev, g.values, rows)

gridRows(table, r, ev, values, rows) ==
    IF r > table.endRow THEN [values |-> values, rows |-> rows]
    ELSE gridRowDone(table, r,
                     gridCols(table.columns, 1, r,
                              [ev |-> ev, values |-> values, row |-> <<>>, rowHasAny |-> FALSE]),
                     rows)

\* renderGrid: [values |-> ref :> the value of each table cell, rows |-> the body shown]
gridOf(table, ev) == gridRows(table, table.startRow, ev, EmptyMap, <<>>)

renderGrid(sheetModel, overrides) ==
    gridOf(SheetModel(sheetModel).table, SheetEvaluator(sheetModel, overrides))

----------------------------------------------------------------------------
(* Bounds and inputs                                                        *)

\* Top-level evalCell calls made on one evaluator
MaxCalls == 3

\* Top-level evalCell calls made on one evaluator while the page is in use
MaxPageCalls == 1

\* What the store may hold when the page starts (JSON of an earlier visit),
\* which is also what a caller may hand to the evaluator.
InitialStores(name) ==
    CASE name = "SUM" ->
            { <<>>,
              <<[k |-> <<"d", "4">>, v |-> Num(1)], [k |-> <<"D", "4">>, v |-> Str(<<"8">>)]>>,
              <<[k |-> <<"D", "6">>, v |-> Num(100)]>> }
      [] name = "IF" ->
            { <<>>,
              <<[k |-> <<"A", "1">>, v |-> Num(0)]>>,
              <<[k |-> <<"B", "1">>, v |-> Null], [k |-> <<"$", "A", "$", "2">>, v |-> Str(<<" ", "5", " ">>)]>> }
      [] name = "CYCLE" -> { <<>>, <<[k |-> <<"B", "1">>, v |-> Num(5)]>> }
      [] name = "BAD" -> { <<>>, <<[k |-> <<"A", "1">>, v |-> Num(3)]>> }
      [] name = "ARGS" -> { <<>>, <<[k |-> <<"B", "1">>, v |-> Num(0)]>> }

\* What a user may type into an input field
TypedTexts == {<<>>, <<" ", "1", "2", " ">>, <<"a", "s", "h">>}

lowerCase(s) ==
    [i \in 1..Len(s) |-> IF IsUpperLetter(s[i]) THEN fromCharCode(charCodeAt(s[i]) + 32) ELSE s[i]]

anchorAt(key, k) == <<"$">> \o SubSeq(key, 1, k) \o <<"$">> \o SubSeq(key, k + 1, Len(key))

Anchored(key) == anchorAt(key, LetterRun(key))

\* The cells of the first row of a table
topRow(table) == {table.columns[j] \o IntToStr(table.startRow) : j \in 1..Len(table.columns)}

respelled(top) == {lowerCase(key) : key \in top} \cup {Anchored(key) : key \in top}

\* The refs a caller of the class evaluates: every cell of the document by its
\* key, and the cells of the first table row also in lower case and anchored.
CallRefs(name) == DOMAIN SheetModel(name).cells \cup respelled(topRow(SheetModel(name).table))

\* The formula cells a caller of the class reads while the page is in use
ColumnRefs(name) ==
    CASE name = "SUM" -> {<<"D", "6">>, <<"E", "7">>}
      [] name = "IF" -> {<<"C", "1">>, <<"C", "3">>}
      [] name = "CYCLE" -> {<<"A", "2">>, <<"C", "2">>}
      [] name = "BAD" -> {<<"B", "2">>, <<"C", "2">>}
      [] name = "ARGS" -> {<<"A", "1">>, <<"C", "2">>}

----------------------------------------------------------------------------
(* The state machine                                                        *)

NoSession == [live |-> FALSE]

NoCall == [made |-> FALSE]

NoGrid == [shown |-> FALSE]

\* A new evaluator as the caller holds it; born (history) is the caller's map
\* when it was constructed, returned (history) the value each normalized ref
\* first came back with from a top-level call.
FreshSession(name, overrides) ==
    [live |-> TRUE, ev |-> SheetEvaluator(name, overrides), born |-> overrides,
     ncalls |-> 0, returned |-> EmptyMap]

Shown(name, overrides) == [shown |-> TRUE, overrides |-> overrides] @@ renderGrid(name, overrides)

IdleCodec == codecIn = [kind |-> "none"] /\ codecOut = [kind |-> "none"]

IdleParse == tree = [type |-> "none"] /\ parsed = [done |-> FALSE]

\* main() has run: the model is loaded and render() has drawn the active sheet.
Init ==
    /\ sheet \in SheetNames
    /\ stored \in InitialStores(sheet)
    /\ session = NoSession
    /\ last = NoCall
    /\ grid = Shown(sheet, stored)
    /\ IdleCodec
    /\ IdleParse

\* new SheetEvaluator(sheetModel, overrides) by a caller that read the store
NewEvaluator ==
    /\ session' = FreshSession(sheet, stored)
    /\ last' = NoCall
    /\ UNCHANGED <<sheet, stored, grid, codecVars, parseVars>>

\* The caller's record after a call on nref came back with r
Called(s, nref, r) ==
    [s EXCEPT !.ev = WithState(s.ev, r.st),
              !.ncalls = @ + 1,
              !.returned = IF r.thrown \/ nref \in DOMAIN @ THEN @ ELSE MapSet(@, nref, r.v)]

\* What the last call was and gave (history)
CallRecord(s, ref, nref, r) ==
    [made |-> TRUE, ref |-> ref, thrown |-> r.thrown, v |-> r.v,
     first |-> s.ncalls = 0,
     had |-> nref \in DOMAIN s.returned,
     prior |-> IF nref \in DOMAIN s.returned THEN s.returned[nref] ELSE Null]

CallDone(ref, nref, r) ==
    /\ session' = Called(session, nref, r)
    /\ last' = CallRecord(session, ref, nref, r)

\* A top-level evaluator.evalCell(ref) on the evaluator held
EvalCell(ref) ==
    /\ session.live
    /\ session.ncalls < MaxCalls
    /\ CallDone(ref, normalizeRef(ref), evalCell(session.ev, ref, <<>>, StateOf(session.ev)))
    /\ UNCHANGED <<sheet, stored, grid, codecVars, parseVars>>

\* select(name) on the tab of the active sheet: render() again
Select ==
    /\ grid' = Shown(sheet, stored)
    /\ UNCHANGED <<sheet, stored, session, last, codecVars, parseVars>>

\* onChange(cell, val): next = {...overrides}; next[key] = val; a blank or null
\* val deletes the key; saveOverrides(next); renderGrid(next)
onChange(key, val) ==
    IF val.t = "null" \/ (val.t = "str" /\ val.v = <<>>)
    THEN ObjDelete(ObjSet(stored, key, val), key)
    ELSE ObjSet(stored, key, val)

Changed(next) ==
    /\ stored' = next
    /\ grid' = Shown(sheet, next)

\* The oninput handler of input field inp with the text typed: parseUserInput,
\* then the onChange callback
OnInputField(inp, raw) == Changed(onChange(normalizeRef(inp.cell), parseUserInput(raw, inp.type)))

OnInput(n, raw) ==
    /\ OnInputField(SheetModel(sheet).inputs[n], raw)
    /\ UNCHANGED <<sheet, session, last, codecVars, parseVars>>

Next ==
    \/ NewEvaluator
    \/ \E ref \in ColumnRefs(sheet) :
            session.live /\ session.ncalls < MaxPageCalls /\ EvalCell(ref)
    \/ Select
    \/ \E n \in 1..Len(SheetModel(sheet).inputs) : \E raw \in TypedTexts : OnInput(n, raw)

\* The page and a caller of the class holding one evaluator at a time
Spec == Init /\ [][Next]_vars

\* One evaluator, constructed with some overrides, and the calls made on it
InitSession ==
    /\ sheet \in SheetNames
    /\ stored \in InitialStores(sheet)
    /\ session = FreshSession(sheet, stored)
    /\ last = NoCall
    /\ grid = NoGrid
    /\ IdleCodec
    /\ IdleParse

NextSession == \E ref \in CallRefs(sheet) : EvalCell(ref)

SpecSession == InitSession /\ [][NextSession]_vars

----------------------------------------------------------------------------
(* The reference codec on its own                                           *)

\* Column indices numToCol is applied to
MaxColIndex == 710

\* Corner columns and rows of the ranges expanded
MaxRangeCol == 4

MaxRangeRow == 3

\* The columns around the step from one letter to two: Y, Z, AA, AB
RangeCols == 25..(24 + MaxRangeCol)

RangeRows == 1..MaxRangeRow

CornerText(c, r) == numToCol(c) \o IntToStr(r)

\* The ways a formula may spell a corner
Spellings(key) == {key, lowerCase(key), Anchored(key)}

InitCodec ==
    /\ sheet = "SUM"
    /\ stored = <<>>
    /\ session = NoSession
    /\ last = NoCall
    /\ grid = NoGrid
    /\ IdleCodec
    /\ IdleParse

\* numToCol(n), and colToNum of what it gave
NumToCol(n) ==
    /\ codecIn.kind = "none"
    /\ codecIn' = [kind |-> "col", n |-> n]
    /\ codecOut' = [kind |-> "col", s |-> numToCol(n), n |-> colToNum(numToCol(n))]
    /\ UNCHANGED <<evalVars, parseVars>>

\* expandRange(a:b), a a corner (ca, ra) in some spelling and b the corner (cb, rb)
ExpandRange(ca, ra, cb, rb, a) ==
    /\ codecIn.kind = "none"
    /\ codecIn' = [kind |-> "range", a |-> a, b |-> CornerText(cb, rb),
                   ca |-> ca, ra |-> ra, cb |-> cb, rb |-> rb]
    /\ codecOut' = [kind |-> "range"] @@ expandRange(a \o <<":">> \o CornerText(cb, rb))
    /\ UNCHANGED <<evalVars, parseVars>>

\* Length of the texts normalizeRef and splitRef are applied to
MaxRefLen == 3

\* An anchor, a lower-case and a capital letter, two digits and a character
\* that is none of these
RefChars == {"$", "a", "B", "1", "0", "-"}

RECURSIVE TextsOf(_)
TextsOf(n) ==
    IF n = 0 THEN {<<>>}
    ELSE TextsOf(n - 1) \cup {Append(t, ch) : t \in TextsOf(n - 1), ch \in RefChars}

RefTexts == TextsOf(MaxRefLen)

\* normalizeRef(ref) of a string, and splitRef of what it gave. replace and
\* toUpperCase of a string do not throw, so thrown is FALSE for normalizeRef.
NormalizeRef(ref) ==
    /\ codecIn.kind = "none"
    /\ codecIn' = [kind |-> "ref", ref |-> ref]
    /\ codecOut' = [kind |-> "ref", thrown |-> FALSE, out |-> normalizeRef(ref),
                    split |-> splitRef(normalizeRef(ref))]
    /\ UNCHANGED <<evalVars, parseVars>>

NextCodec ==
    \/ \E n \in 1..MaxColIndex : NumToCol(n)
    \/ \E ref \in RefTexts : NormalizeRef(ref)
    \/ \E ca \in RangeCols, cb \in RangeCols, ra \in RangeRows, rb \in RangeRows :
            \E a \in Spellings(CornerText(ca, ra)) : ExpandRange(ca, ra, cb, rb, a)

SpecCodec == InitCodec /\ [][NextCodec]_vars

----------------------------------------------------------------------------
(* The parser on its own: formulas written out from trees                   *)

\* Operator nodes (unary and binary) of the trees written out
MaxOps == 2

Leaves == {NumNode(Num(1)), CellNode(<<"A", "1">>)}

TreeBinOps == {<<"<">>, <<"&">>, <<"+">>, <<"-">>, <<"*">>}

TreeUnaryOps == {<<"-">>}

\* The trees with exactly k operator nodes
RECURSIVE TreesWith(_)
TreesWith(k) ==
    IF k = 0 THEN Leaves
    ELSE {UnaryNode(op, e) : op \in TreeUnaryOps, e \in TreesWith(k - 1)}
         \cup UNION {{BinNode(op, l, r) : op \in TreeBinOps, l \in TreesWith(i),
                                          r \in TreesWith(k - 1 - i)} : i \in 0..(k - 1)}

Trees == UNION {TreesWith(k) : k \in 0..MaxOps}

\* The rung of the ladder a node sits on: comparison 1, concatenation 2,
\* additive 3, multiplicative 4, unary 5, primary 6
Rung(t) ==
    IF t.type = "bin"
    THEN IF t.op \in CompareOps THEN 1
         ELSE IF t.op \in ConcatOps THEN 2
         ELSE IF t.op \in AddOps THEN 3
         ELSE 4
    ELSE IF t.type = "unary" THEN 5
    ELSE 6

\* The formula text of a tree with only the parentheses the ladder asks for:
\* an operand is parenthesized when it sits on a lower rung than its place
\* admits (the rung of the operator on the left, the next rung on the right).
RECURSIVE Unparse(_)
RECURSIVE UnparseAt(_, _)
Unparse(t) ==
    IF t.type = "bin" THEN UnparseAt(t.left, Rung(t)) \o t.op \o UnparseAt(t.right, Rung(t) + 1)
    ELSE IF t.type = "unary" THEN t.op \o UnparseAt(t.expr, 5)
    ELSE IF t.type = "num" THEN String(t.value)
    ELSE t.ref

UnparseAt(t, rung) == IF Rung(t) < rung THEN <<"(">> \o Unparse(t) \o <<")">> ELSE Unparse(t)

\* Equality of two trees, node type first
RECURSIVE AstEq(_, _)
AstEq(a, b) ==
    /\ a.type = b.type
    /\ IF a.type = "bin" THEN a.op = b.op /\ AstEq(a.left, b.left) /\ AstEq(a.right, b.right)
       ELSE IF a.type = "unary" THEN a.op = b.op /\ AstEq(a.expr, b.expr)
       ELSE IF a.type = "num" THEN a.value.t = b.value.t /\ a.value.v = b.value.v
       ELSE IF a.type = "cell" THEN a.ref = b.ref
       ELSE FALSE

InitParse ==
    /\ sheet = "SUM"
    /\ stored = <<>>
    /\ session = NoSession
    /\ last = NoCall
    /\ grid = NoGrid
    /\ IdleCodec
    /\ IdleParse

\* parse(text), text the formula written out from tree t
ParseTree(t) ==
    /\ ~parsed.done
    /\ tree' = t
    /\ parsed' = [done |-> TRUE, text |-> Unparse(t), res |-> parse(Unparse(t))]
    /\ UNCHANGED <<evalVars, codecVars>>

NextParse == \E t \in Trees : ParseTree(t)

SpecParse == InitParse /\ [][NextParse]_vars

----------------------------------------------------------------------------
(* Properties                                                               *)

\* Equality of two values, type first
RECURSIVE ValEq(_, _)
ValEq(a, b) ==
    /\ a.t = b.t
    /\ IF a.t = "arr"
       THEN Len(a.v) = Len(b.v) /\ \A i \in 1..Len(a.v) : ValEq(a.v[i], b.v[i])
       ELSE a.v = b.v

\* What a call gave, as thrown or the value returned
SameOutcome(thrown, v, r) == thrown = r.thrown /\ (~thrown => ValEq(v, r.v))

\* The first call evalCell(ref) on a new evaluator over the document name
\* constructed with the map overrides
FreshCall(name, overrides, ref) ==
    evalCell(SheetEvaluator(name, overrides), ref, <<>>, StateOf(SheetEvaluator(name, overrides)))

\* The raw value a map of overrides leaves a cell of the document with
EffectiveRaw(name, overrides, nref) ==
    IF HasOverride(overrides, nref) THEN OverrideValue(overrides, nref)
    ELSE IF nref \in DOMAIN SheetModel(name).cells THEN SheetModel(name).cells[nref].v
    ELSE Null

FormulaOf(name, nref) ==
    IF nref \in DOMAIN SheetModel(name).cells THEN SheetModel(name).cells[nref].f ELSE Null

\* The cell last called, normalized
LastRef == normalizeRef(last.ref)

\* The map of overrides without the keys that spell nref
Without(obj, nref) == SelectSeq(obj, LAMBDA e : normalizeRef(e.k) # nref)

\* C1 as stated: a call on a cell that has an entry in the override map
\* returns the override's raw value, numeric-like text as a number, whether or
\* not the document has a formula for the cell.
C1_AsStated ==
    (session.live /\ last.made /\ HasOverride(session.born, LastRef))
        => /\ ~last.thrown
           /\ ValEq(last.v, RawOut(OverrideValue(session.born, LastRef)))

\* C1 amended: a call on a cell that has an entry in the override map and no
\* formula in the document returns the override's raw value, numeric-like text
\* as a number; when the document has a formula for the cell the entry is
\* ignored and the call gives what it gives without the entry.
C1_OverrideOfRawCell ==
    (session.live /\ last.made /\ HasOverride(session.born, LastRef))
        => IF NoFormula(FormulaOf(sheet, LastRef))
           THEN /\ ~last.thrown
                /\ ValEq(last.v, RawOut(OverrideValue(session.born, LastRef)))
           ELSE last.first =>
                    SameOutcome(last.thrown, last.v,
                                FreshCall(sheet, Without(session.born, LastRef), last.ref))

\* An overridden raw cell called: D4, overridden with the text 8, gives the number 8
C1_Witness ==
    /\ session.live /\ last.made /\ sheet = "SUM"
    /\ LastRef = <<"D", "4">>
    /\ HasOverride(session.born, LastRef)
    /\ OverrideValue(session.born, LastRef).t = "str"
    /\ ValEq(last.v, Num(8))

BlankedName(name) == IF name = "BAD" THEN "BADBLANK" ELSE name

TableRefs(name) ==
    {SheetModel(name).table.columns[j] \o IntToStr(r) :
        j \in 1..Len(SheetModel(name).table.columns),
        r \in SheetModel(name).table.startRow..SheetModel(name).table.endRow}

\* C3 as stated: every cell of the grid has the value it has in the document
\* in which the cells whose formula does not tokenize or parse are blank, so
\* a failing cell shows blank and a cell that references it is computed with
\* blank in its place.
C3_AsStated ==
    grid.shown =>
        \A ref \in TableRefs(sheet) :
            ValEq(grid.values[ref], renderGrid(BlankedName(sheet), grid.overrides).values[ref])

\* C4 as stated: every call of evalCell returns a value.
C4_AsStated == (session.live /\ last.made) => ~last.thrown

\* C5: a call for a cell that an earlier call on the same evaluator returned
\* a value for, under any spelling of the reference, returns that value.
C5_RepeatedCallSameValue ==
    (session.live /\ last.made /\ last.had) => ~last.thrown /\ ValEq(last.v, last.prior)

\* A cell called again under another spelling after another cell was called
C5_Witness ==
    /\ session.live /\ last.made /\ last.had
    /\ last.ref # LastRef
    /\ Cardinality(DOMAIN session.returned) >= 2
    /\ ~last.thrown

\* The cells an expression names, normalized
RECURSIVE RefsOf(_)
RECURSIVE RefsOfArgs(_, _)
RefsOf(node) ==
    CASE node.type = "cell" -> {normalizeRef(node.ref)}
      [] node.type = "range" ->
            IF expandRange(node.ref).ok
            THEN {expandRange(node.ref).out[i] : i \in 1..Len(expandRange(node.ref).out)}
            ELSE {}
      [] node.type = "unary" -> RefsOf(node.expr)
      [] node.type = "bin" -> RefsOf(node.left) \cup RefsOf(node.right)
      [] node.type = "call" -> RefsOfArgs(node.args, 1)
      [] OTHER -> {}

RefsOfArgs(args, i) == IF i > Len(args) THEN {} ELSE RefsOf(args[i]) \cup RefsOfArgs(args, i + 1)

\* The cells the formula of a cell names
FormulaRefs(name, nref) ==
    IF NoFormula(FormulaOf(name, nref)) THEN {}
    ELSE IF parse(FormulaOf(name, nref).v).ok THEN RefsOf(parse(FormulaOf(name, nref).v).ast)
    ELSE {}

\* The cells reached from a set of cells through the formulas of the document
RECURSIVE Reach(_, _)
Reach(name, refs) ==
    IF UNION {FormulaRefs(name, r) : r \in refs} \subseteq refs THEN refs
    ELSE Reach(name, refs \cup UNION {FormulaRefs(name, r) : r \in refs})

\* The formula of a cell as a call of the function fn, when it is one
IsCallOf(name, nref, fn) ==
    /\ ~NoFormula(FormulaOf(name, nref))
    /\ parse(FormulaOf(name, nref).v).ok
    /\ parse(FormulaOf(name, nref).v).ast.type = "call"
    /\ parse(FormulaOf(name, nref).v).ast.name = fn

CallArgs(name, nref) == parse(FormulaOf(name, nref).v).ast.args

\* The condition of the IF in cell nref, evaluated on a new evaluator
CondOf(name, overrides, nref) ==
    evalAst(SheetEvaluator(name, overrides), CallArgs(name, nref)[1], <<nref>>,
            StateOf(SheetEvaluator(name, overrides)))

\* The branch of the IF in cell nref that its condition selects
TakenBranch(name, overrides, nref) ==
    IF truthyExcel(CondOf(name, overrides, nref).v) THEN CallArgs(name, nref)[2]
    ELSE elseArg(CallArgs(name, nref))

\* The cells the IF in cell nref may touch: itself and what its condition and
\* the selected branch reach
IfFrame(name, overrides, nref) ==
    {nref} \cup Reach(name, RefsOf(CallArgs(name, nref)[1])
                            \cup RefsOf(TakenBranch(name, overrides, nref)))

\* C6: after the first call on an evaluator, for a cell whose formula is an
\* IF with at least a then-branch and whose condition evaluates, evalCell was
\* entered for, and the cache holds, only the cell itself and the cells that
\* the condition and the selected branch reach; without an else-branch and
\* with a condition that is not truthy the call returns the empty text.
C6_IfEvaluatesOneBranch ==
    (/\ session.live /\ last.made /\ last.first
     /\ IsCallOf(sheet, LastRef, <<"I", "F">>)
     /\ Len(CallArgs(sheet, LastRef)) >= 2
     /\ ~CondOf(sheet, session.born, LastRef).thrown)
        => /\ session.ev.calls \subseteq IfFrame(sheet, session.born, LastRef)
           /\ DOMAIN session.ev.cache \subseteq IfFrame(sheet, session.born, LastRef)
           /\ (Len(CallArgs(sheet, LastRef)) = 2
                    /\ ~truthyExcel(CondOf(sheet, session.born, LastRef).v))
                => ~last.thrown /\ ValEq(last.v, Str(<<>>))

\* IF(A1>0,B2) called first with A1 overridden to 0: the empty text comes
\* back and neither B2 nor the B3 it names was evaluated
C6_Witness ==
    /\ session.live /\ last.made /\ last.first /\ sheet = "IF"
    /\ LastRef = <<"C", "2">>
    /\ ~last.thrown /\ ValEq(last.v, Str(<<>>))
    /\ <<"B", "2">> \in RefsOf(CallArgs(sheet, LastRef)[2])
    /\ <<"B", "2">> \notin session.ev.calls
    /\ <<"B", "3">> \notin DOMAIN session.ev.cache
    /\ <<"A", "1">> \in DOMAIN session.ev.cache

\* The cells of the box, row by row, each row from the first column to the last
BoxCells(c0, c1, r0, r1) ==
    [k \in 1..((c1 - c0 + 1) * (r1 - r0 + 1)) |->
        numToCol(c0 + ((k - 1) % (c1 - c0 + 1))) \o IntToStr(r0 + ((k - 1) \div (c1 - c0 + 1)))]

RangeText(ca, ra, cb, rb) == CornerText(ca, ra) \o <<":">> \o CornerText(cb, rb)

\* C7: expandRange of two corners gives the cells of their bounding box in
\* row-major order, and the same for the corners in the other order and for
\* the other two corners of the rectangle in either order.
C7_ExpandRangeBoundingBox ==
    codecIn.kind = "range"
        => /\ codecOut.ok
           /\ codecOut.out = BoxCells(Min(codecIn.ca, codecIn.cb), Max(codecIn.ca, codecIn.cb),
                                      Min(codecIn.ra, codecIn.rb), Max(codecIn.ra, codecIn.rb))
           /\ \A t \in {codecIn.b \o <<":">> \o codecIn.a,
                        RangeText(codecIn.ca, codecIn.rb, codecIn.cb, codecIn.ra),
                        RangeText(codecIn.cb, codecIn.ra, codecIn.ca, codecIn.rb)} :
                    expandRange(t).ok /\ expandRange(t).out = codecOut.out

\* The lower right corner written first and anchored, the upper left second
C7_Witness ==
    /\ codecIn.kind = "range"
    /\ codecIn.ca = 27 /\ codecIn.cb = 25 /\ codecIn.ra = 3 /\ codecIn.rb = 1
    /\ Head(codecIn.a) = "$"
    /\ codecOut.out = <<<<"Y", "1">>, <<"Z", "1">>, <<"A", "A", "1">>,
                        <<"Y", "2">>, <<"Z", "2">>, <<"A", "A", "2">>,
                        <<"Y", "3">>, <<"Z", "3">>, <<"A", "A", "3">>>>

\* The number a string of letters stands for, A..Z as the digits 1..26
LetterDigit(ch) == CHOOSE d \in 1..26 : Ascii[33 + d] = ch

RECURSIVE LettersValue(_, _)
LettersValue(s, i) ==
    IF i > Len(s) THEN 0
    ELSE LetterDigit(s[i]) * (26 ^ (Len(s) - i)) + LettersValue(s, i + 1)

\* C8: colToNum(numToCol(n)) = n, and numToCol(n) is a non-empty string of
\* the letters A..Z that stands for n with A..Z as the digits 1..26; 1 is A,
\* 26 is Z, 27 is AA.
C8_ColumnRoundTrip ==
    codecIn.kind = "col"
        => /\ codecOut.n = codecIn.n
           /\ codecOut.s # <<>>
           /\ \A i \in 1..Len(codecOut.s) : codecOut.s[i] \in UpperLetters
           /\ LettersValue(codecOut.s, 1) = codecIn.n
           /\ (codecIn.n = 1 => codecOut.s = <<"A">>)
           /\ (codecIn.n = 26 => codecOut.s = <<"Z">>)
           /\ (codecIn.n = 27 => codecOut.s = <<"A", "A">>)

\* The first three-letter column
C8_Witness ==
    /\ codecIn.kind = "col" /\ codecIn.n = 703
    /\ codecOut.s = <<"A", "A", "A">> /\ codecOut.n = 703

\* C9: the formula written out from a tree, with parentheses only where an
\* operand sits on a lower rung of the ladder than its place admits (the
\* operator's own rung for a left operand, the next rung for a right operand,
\* the unary rung under a prefix sign), parses back to that tree.
C9_PrecedenceLadder ==
    parsed.done => parsed.res.ok /\ AstEq(parsed.res.ast, tree)

\* A sum in parentheses as the left operand of a product
C9_Witness ==
    /\ parsed.done /\ parsed.res.ok
    /\ parsed.text = <<"(", "1", "+", "A", "1", ")", "*", "1">>
    /\ parsed.res.ast.op = <<"*">>
    /\ parsed.res.ast.left.op = <<"+">>

\* The value of a cell inside the SUM of cell nref: blank for nref itself,
\* else what a new evaluator gives for it
SummedCell(name, overrides, nref, c) ==
    IF c = nref THEN Str(<<>>) ELSE FreshCall(name, overrides, c).v

RECURSIVE SumOfCells(_, _, _, _, _)
SumOfCells(name, overrides, nref, cells, i) ==
    IF i > Len(cells) THEN 0
    ELSE toNumber(SummedCell(name, overrides, nref, cells[i])).v
            + SumOfCells(name, overrides, nref, cells, i + 1)

\* What one argument of a SUM adds: a range its cells, a cell itself, a number its value
ArgSum(name, overrides, nref, arg) ==
    CASE arg.type = "range" -> SumOfCells(name, overrides, nref, expandRange(arg.ref).out, 1)
      [] arg.type = "cell" -> SumOfCells(name, overrides, nref, <<normalizeRef(arg.ref)>>, 1)
      [] arg.type = "num" -> arg.value.v

RECURSIVE SumOfArgs(_, _, _, _, _)
SumOfArgs(name, overrides, nref, args, i) ==
    IF i > Len(args) THEN 0
    ELSE ArgSum(name, overrides, nref, args[i]) + SumOfArgs(name, overrides, nref, args, i + 1)

\* The arguments of the SUM in cell nref are ranges, cells and numbers, and
\* evalCell yields a value for every cell among them
SumArgsYield(name, overrides, nref) ==
    /\ \A i \in 1..Len(CallArgs(name, nref)) : CallArgs(name, nref)[i].type \in {"range", "cell", "num"}
    /\ \A c \in RefsOfArgs(CallArgs(name, nref), 1) \ {nref} : ~FreshCall(name, overrides, c).thrown

\* C10: the first call on an evaluator for a cell whose formula is a SUM of
\* ranges, cells and numbers returns the sum of the numeric coercions of the
\* numbers and of the values evalCell yields, under the evaluator's
\* overrides, for the cells and for every cell of the ranges, when it yields
\* a value for each of them; a raw cell among them counts as the numeric
\* coercion of its raw value, an override before the document.
C10_SumOfArguments ==
    (/\ session.live /\ last.made /\ last.first
     /\ IsCallOf(sheet, LastRef, <<"S", "U", "M">>)
     /\ SumArgsYield(sheet, session.born, LastRef))
        => /\ ~last.thrown
           /\ ValEq(last.v, Num(SumOfArgs(sheet, session.born, LastRef, CallArgs(sheet, LastRef), 1)))
           /\ \A c \in RefsOfArgs(CallArgs(sheet, LastRef), 1) :
                    NoFormula(FormulaOf(sheet, c))
                        => ValEq(session.ev.cache[c], RawOut(EffectiveRaw(sheet, session.born, c)))

\* SUM(D4:E5, 1) with D4 overridden by the text 8: 8 + 0 for oak + 3 + 0 for the blank + 1
C10_Witness ==
    /\ session.live /\ last.made /\ last.first /\ sheet = "SUM"
    /\ LastRef = <<"E", "6">>
    /\ HasOverride(session.born, <<"D", "4">>)
    /\ OverrideValue(session.born, <<"D", "4">>).t = "str"
    /\ ValEq(last.v, Num(12))

\* The text without its anchors, each letter a capital
RECURSIVE Canonical(_)
Canonical(ref) ==
    IF ref = <<>> THEN <<>>
    ELSE IF Head(ref) = "$" THEN Canonical(Tail(ref))
    ELSE IF \E i \in 66..91 : Ascii[i] = Head(ref)
        THEN <<Ascii[(CHOOSE i \in 66..91 : Ascii[i] = Head(ref)) - 32]>> \o Canonical(Tail(ref))
    ELSE <<Head(ref)>> \o Canonical(Tail(ref))

\* One or more capital letters followed by one or more digits, up to the end
LettersAt(s, k) ==
    /\ \A i \in 1..k : s[i] \in UpperLetters
    /\ \A i \in (k + 1)..Len(s) : s[i] \in DigitChars

LettersThenDigits(s) == \E k \in 1..(Len(s) - 1) : LettersAt(s, k)

\* C11 as stated: normalizeRef fails whenever the text without anchors and
\* in capitals is not letters followed by digits.
C11_AsStated ==
    (codecIn.kind = "ref" /\ ~LettersThenDigits(Canonical(codecIn.ref))) => codecOut.thrown

\* C11 amended: normalizeRef returns the text without its anchors and in
\* capitals and never fails; splitRef of that text fails exactly when it is
\* not letters followed by digits, and otherwise gives the letters as the
\* column and the number the digits write as the row.
C11_NormalizeThenSplit ==
    codecIn.kind = "ref"
        => /\ ~codecOut.thrown
           /\ codecOut.out = Canonical(codecIn.ref)
           /\ codecOut.split.ok <=> LettersThenDigits(codecOut.out)
           /\ codecOut.split.ok
                => \E k \in 1..(Len(codecOut.out) - 1) :
                        /\ LettersAt(codecOut.out, k)
                        /\ codecOut.split.col = SubSeq(codecOut.out, 1, k)
                        /\ NatToStr(codecOut.split.row)
                                = NatToStr(DigitsToNat(SubSeq(codecOut.out, k + 1, Len(codecOut.out))))

\* An anchored lower-case column without a row: normalizeRef gives A, and it
\* is splitRef that fails
C11_Witness ==
    /\ codecIn.kind = "ref" /\ codecIn.ref = <<"$", "a", "$">>
    /\ ~codecOut.thrown /\ codecOut.out = <<"A">>
    /\ ~codecOut.split.ok

\* No ref is at two places of the stack
NoDuplicate(stack) == \A i, j \in 1..Len(stack) : stack[i] = stack[j] => i = j

OnStack(nref, stack) == \E i \in 1..Len(stack) : stack[i] = nref

IsPrefix(s, t) == Len(s) <= Len(t) /\ SubSeq(t, 1, Len(s)) = s

\* A step leaves the stack without a duplicate: a push puts a ref that was
\* neither cached nor on the stack on top, a guard return is for a ref that
\* is on the stack and not cached, and the cache is written for a ref it
\* does not hold yet
StepSound(e) ==
    CASE e.op = "push" ->
            /\ NoDuplicate(e.stack)
            /\ e.stack[Len(e.stack)] = e.nref
            /\ ~OnStack(e.nref, SubSeq(e.stack, 1, Len(e.stack) - 1))
            /\ ~e.cached
      [] e.op = "guard" -> NoDuplicate(e.stack) /\ OnStack(e.nref, e.stack) /\ ~e.cached
      [] e.op = "set" -> ~e.cached

\* The step f that follows a guard return e is the caller's: it leaves the
\* cache as it was for the ref, and a push is onto the stack the guard saw
\* or a part of it, never onto a deeper one
AfterGuard(e, f) ==
    /\ f.nref = e.nref => f.op = "set" /\ e.stack[Len(e.stack)] = e.nref
    /\ f.op = "push" => IsPrefix(SubSeq(f.stack, 1, Len(f.stack) - 1), e.stack)

\* The formula of the cell is a reference to the cell itself
SelfReference(name, nref) ==
    /\ ~NoFormula(FormulaOf(name, nref))
    /\ parse(FormulaOf(name, nref).v).ok
    /\ parse(FormulaOf(name, nref).v).ast.type = "cell"
    /\ normalizeRef(parse(FormulaOf(name, nref).v).ast.ref) = nref

\* C12: at every step of a top-level call the visitation stack holds no
\* ref twice; a ref is pushed only when it is neither cached nor on the
\* stack; a ref met again while on the stack is not pushed, nothing is
\* evaluated below it and the cache is not written for it, so each cell is
\* written to the cache once; and the blank text comes back, which a cell
\* that refers to itself shows.
C12_StackHasNoDuplicate ==
    (session.live /\ last.made)
        => /\ \A i \in 1..Len(session.ev.trace) : StepSound(session.ev.trace[i])
           /\ \A i \in 1..(Len(session.ev.trace) - 1) :
                    session.ev.trace[i].op = "guard"
                        => AfterGuard(session.ev.trace[i], session.ev.trace[i + 1])
           /\ SelfReference(sheet, LastRef) => ~last.thrown /\ ValEq(last.v, Str(<<>>))

\* C2 = $b$1 + c1 with B1 and C1 on each other: B1 is met again three cells
\* deep, and the call gives 3
C12_Witness ==
    /\ session.live /\ last.made /\ sheet = "CYCLE"
    /\ LastRef = <<"C", "2">>
    /\ \E i \in 1..Len(session.ev.trace) :
            /\ session.ev.trace[i].op = "guard"
            /\ session.ev.trace[i].stack = <<<<"C", "2">>, <<"B", "1">>, <<"C", "1">>>>
            /\ session.ev.trace[i].nref = <<"B", "1">>
    /\ ValEq(last.v, Num(3))

\* C13 as stated: the value a session holds for a cell it was asked for does
\* not depend on the order of the top-level calls. A session that is asked
\* for the same cells with the cell c first gives c what the first call on a
\* new evaluator gives, so every cell a session was asked for has, whatever
\* was evaluated before it, the value of the first call on a new evaluator
\* over the same document and overrides.
C13_AsStated ==
    (session.live /\ last.made)
        => \A c \in DOMAIN session.returned :
                /\ ~FreshCall(sheet, session.born, c).thrown
                /\ ValEq(session.ev.cache[c], FreshCall(sheet, session.born, c).v)

\* Every cell among refs has no formula or a formula that parses
ParsesAll(name, refs) ==
    \A r \in refs : NoFormula(FormulaOf(name, r)) \/ parse(FormulaOf(name, r).v).ok

\* C14 as stated, for the calls that meet no formula that fails to parse: a
\* call for a cell whose formula parses, as does the formula of every cell it
\* reaches, returns a value.
C14_AsStated ==
    (/\ session.live /\ last.made
     /\ ~NoFormula(FormulaOf(sheet, LastRef))
     /\ ParsesAll(sheet, Reach(sheet, {LastRef})))
        => ~last.thrown

====
